---- MODULE Spec2Model ----
(***************************************************************************)
(* Model of imgdownloader.py: the filename resolver, the image fetcher and *)
(* the interactive session loop.  Text is modelled as sequences of         *)
(* one-character strings so that strip, lower, startswith, URL parsing and *)
(* percent-decoding are computed character by character.                   *)
(***************************************************************************)
EXTENDS Integers, Sequences, FiniteSets, TLC

VARIABLES
    pc,         \* position of the program (session state or step of download_image)
    raw,        \* the line last returned by input(), before strip()
    url,        \* main's `url`: the stripped line
    dirState,   \* what "Fetched_Images" is on disk: "absent", "dir" or "file"
    returned,   \* the paths create_fetched_images_directory has returned, in order
    files,      \* the regular files on disk: path as given to open() -> bytes
    filesAtCall,\* snapshot of `files` taken when download_image was entered
    requests,   \* number of HTTP requests issued so far
    prompts,    \* number of lines read by input() so far
    resp,       \* the response object of the current download
    filename,   \* download_image's `filename`
    fpos,       \* number of chunks already pulled from response.iter_content
    result,     \* value returned by the last download_image call ("none" before)
    raised,     \* class of the exception the last step raised ("none" when it raised nothing)
    at,         \* the position at which that exception was raised
    escaped,    \* class of the exception that left download_image, "none" otherwise
    now,        \* int(time.time())
    said        \* the last kind of message printed

vars == <<pc, raw, url, dirState, returned, files, filesAtCall, requests, prompts, resp,
          filename, fpos, result, raised, at, escaped, now, said>>

----------------------------------------------------------------------------
(* Bounds of the model. *)

MaxTail == 4        \* longest URL tail enumerated for the filename resolver
MaxPrompts == 2     \* lines read by input() per explored session
MaxCalls == 2       \* calls of create_fetched_images_directory in a row

----------------------------------------------------------------------------
(* Text helpers: str.strip, str.lower, str.startswith, the `in` of a     *)
(* character in a string.                                                 *)

Upper == <<"A","B","C","D","E","F","G","H","I","J","K","L","M",
           "N","O","P","Q","R","S","T","U","V","W","X","Y","Z">>
Lowercase == <<"a","b","c","d","e","f","g","h","i","j","k","l","m",
           "n","o","p","q","r","s","t","u","v","w","x","y","z">>

lower_char(c) ==
    IF \E i \in 1..26 : Upper[i] = c
    THEN Lowercase[CHOOSE i \in 1..26 : Upper[i] = c]
    ELSE c

lower(s) == [i \in 1..Len(s) |-> lower_char(s[i])]

IsSpace(c) == c \in {" ", "\t", "\n", "\r"}

RECURSIVE lstrip(_)
lstrip(s) == IF s # <<>> /\ IsSpace(Head(s)) THEN lstrip(Tail(s)) ELSE s

RECURSIVE rstrip(_)
rstrip(s) ==
    IF s # <<>> /\ IsSpace(s[Len(s)]) THEN rstrip(SubSeq(s, 1, Len(s) - 1)) ELSE s

strip(s) == rstrip(lstrip(s))

startswith(s, p) == Len(s) >= Len(p) /\ SubSeq(s, 1, Len(p)) = p

Contains(s, c) == \E i \in 1..Len(s) : s[i] = c

\* str.find(c, start) with 1-based positions; 0 when absent
Find(s, c, start) ==
    IF \E i \in start..Len(s) : s[i] = c
    THEN CHOOSE i \in start..Len(s) : s[i] = c /\ \A j \in start..(i - 1) : s[j] # c
    ELSE 0

\* str.rfind(c) with 1-based positions; 0 when absent
RFind(s, c) ==
    IF Contains(s, c)
    THEN CHOOSE i \in 1..Len(s) : s[i] = c /\ \A j \in (i + 1)..Len(s) : s[j] # c
    ELSE 0

----------------------------------------------------------------------------
(* urllib.parse.urlparse(url).path                                         *)

SchemeChars ==
    {Lowercase[i] : i \in 1..26} \cup {Upper[i] : i \in 1..26}
      \cup {"0","1","2","3","4","5","6","7","8","9","+","-","."}

IsAlpha(c) == \E i \in 1..26 : Lowercase[i] = c \/ Upper[i] = c

uses_params == {<<>>, <<"f","t","p">>, <<"h","t","t","p">>, <<"h","t","t","p","s">>}

\* the scheme split of urlsplit: <<scheme, rest>>
SplitScheme(u) ==
    LET i == Find(u, ":", 1) IN
    IF i > 1 /\ IsAlpha(u[1]) /\ \A k \in 1..(i - 1) : u[k] \in SchemeChars
    THEN <<lower(SubSeq(u, 1, i - 1)), SubSeq(u, i + 1, Len(u))>>
    ELSE <<(<<>>), u>>

\* _splitnetloc(url, 2): <<netloc, rest>>
SplitNetloc(u) ==
    LET D == {i \in 3..Len(u) : u[i] \in {"/", "?", "#"}}
        delim == IF D = {} THEN Len(u) + 1
                 ELSE CHOOSE i \in D : \A j \in D : i <= j
    IN <<SubSeq(u, 3, delim - 1), SubSeq(u, delim, Len(u))>>

\* text before the first occurrence of c (all of s when c is absent)
Before(s, c) == IF Contains(s, c) THEN SubSeq(s, 1, Find(s, c, 1) - 1) ELSE s

\* _splitparams(url)[0]
SplitParams(p) ==
    IF Contains(p, "/")
    THEN LET i == Find(p, ";", RFind(p, "/")) IN
         IF i = 0 THEN p ELSE SubSeq(p, 1, i - 1)
    ELSE SubSeq(p, 1, Find(p, ";", 1) - 1)

\* urlparse(url): [ok |-> FALSE] when it raises ValueError, else the path
urlparse(u) ==
    LET ss == SplitScheme(lstrip(u))
        scheme == ss[1]
        afterScheme == ss[2]
        hasNetloc == startswith(afterScheme, <<"/", "/">>)
        nl == IF hasNetloc THEN SplitNetloc(afterScheme) ELSE <<(<<>>), afterScheme>>
        netloc == nl[1]
        badNetloc == Contains(netloc, "[") # Contains(netloc, "]")
        noFrag == Before(nl[2], "#")
        noQuery == Before(noFrag, "?")
        path == IF scheme \in uses_params /\ Contains(noQuery, ";")
                THEN SplitParams(noQuery) ELSE noQuery
    IN IF badNetloc THEN [ok |-> FALSE, path |-> <<>>]
       ELSE [ok |-> TRUE, path |-> path]

----------------------------------------------------------------------------
(* urllib.parse.unquote                                                    *)

HexDigits == <<"0","1","2","3","4","5","6","7","8","9","A","B","C","D","E","F">>

IsHex(c) == \E i \in 1..16 : HexDigits[i] = c \/ lower_char(HexDigits[i]) = c

HexVal(c) == (CHOOSE i \in 1..16 : HexDigits[i] = c \/ lower_char(HexDigits[i]) = c) - 1

REPLACEMENT == "U+FFFD"   \* what decode(errors='replace') yields for an invalid byte
NUL == "U+0000"

\* the character of one decoded byte.  Bytes of 0x80 and above are never valid
\* UTF-8 on their own (the URL alphabet cannot spell a continuation byte).
ByteToChar(b) ==
    CASE b >= 128 -> REPLACEMENT
      [] b = 0 -> NUL
      [] b = 34 -> "\""
      [] b = 37 -> "%"
      [] b = 46 -> "."
      [] b = 47 -> "/"

RECURSIVE unquote(_)
unquote(s) ==
    IF s = <<>> THEN <<>>
    ELSE IF s[1] = "%" /\ Len(s) >= 3 /\ IsHex(s[2]) /\ IsHex(s[3])
    THEN <<ByteToChar(16 * HexVal(s[2]) + HexVal(s[3]))>> \o unquote(SubSeq(s, 4, Len(s)))
    ELSE <<s[1]>> \o unquote(Tail(s))

----------------------------------------------------------------------------
(* os.path.basename (POSIX), str(int), and the filename resolver           *)

\* no basename at all: the whole path is taken for the name
basename_whole(p) == p

basename(p) == SubSeq(p, RFind(p, "/") + 1, Len(p))

Digits == <<"0","1","2","3","4","5","6","7","8","9">>

RECURSIVE str_int(_)
str_int(n) ==
    IF n < 10 THEN <<Digits[n + 1]>> ELSE str_int(n \div 10) \o <<Digits[(n % 10) + 1]>>

\* f"image_{timestamp}.jpg"
generated_name(timestamp) ==
    <<"i","m","a","g","e","_">> \o str_int(timestamp) \o <<".","j","p","g">>

\* a resolver that keeps any non-empty name, with or without an extension
keeps_url_name_any(name) == name # <<>>

\* the test of line 34
keeps_url_name(name) == name # <<>> /\ Contains(name, ".")

\* a resolver that takes the final segment first and decodes it afterwards
extract_filename_split_first(u, t) ==
    LET parsed_url == urlparse(u) IN
    IF ~parsed_url.ok THEN generated_name(t)
    ELSE LET name == unquote(basename(parsed_url.path)) IN
         IF name # <<>> /\ Contains(name, ".") THEN name ELSE generated_name(t)

extract_filename_from_url(u, t) ==
    LET parsed_url == urlparse(u) IN
    IF ~parsed_url.ok THEN generated_name(t)
    ELSE LET name == basename(unquote(parsed_url.path)) IN
         IF keeps_url_name(name) THEN name ELSE generated_name(t)

----------------------------------------------------------------------------
(* Exception classes and the except clauses that catch them                *)

\* the classes an exception of each class is an instance of
Bases(k) ==
    CASE k = "Timeout"              -> {"Timeout", "RequestException", "OSError", "Exception"}
      [] k = "ConnectionError"      -> {"ConnectionError", "RequestException", "OSError", "Exception"}
      [] k = "HTTPError"            -> {"HTTPError", "RequestException", "OSError", "Exception"}
      [] k = "ChunkedEncodingError" -> {"ChunkedEncodingError", "RequestException", "OSError", "Exception"}
      [] k = "TooManyRedirects"     -> {"TooManyRedirects", "RequestException", "OSError", "Exception"}
      [] k = "IsADirectoryError"    -> {"IsADirectoryError", "OSError", "Exception"}
      [] k = "PermissionError"      -> {"PermissionError", "OSError", "Exception"}
      [] k = "FileExistsError"      -> {"FileExistsError", "OSError", "Exception"}
      [] k = "FileNotFoundError"    -> {"FileNotFoundError", "OSError", "Exception"}
      [] k = "OSError"              -> {"OSError", "Exception"}
      [] k = "ValueError"           -> {"ValueError", "Exception"}
      [] k = "EOFError"             -> {"EOFError", "Exception"}
      [] k = "KeyboardInterrupt"    -> {"KeyboardInterrupt"}

\* download_image without its last-resort clause
download_clauses_without_last_resort ==
    <<"Timeout", "ConnectionError", "HTTPError", "RequestException", "OSError">>

\* the except clauses of download_image, in order
download_clauses ==
    <<"Timeout", "ConnectionError", "HTTPError", "RequestException", "OSError", "Exception">>

\* main's loop without its KeyboardInterrupt clause
main_clauses_exception_only == <<"Exception">>

\* the except clauses of main's loop, in order
main_clauses == <<"KeyboardInterrupt", "Exception">>

\* the first clause that matches an exception of class k, "uncaught" when none does
Catch(clauses, k) ==
    LET M == {i \in 1..Len(clauses) : clauses[i] \in Bases(k)} IN
    IF M = {} THEN "uncaught" ELSE clauses[CHOOSE i \in M : \A j \in M : i <= j]

\* the positions of main that lie inside the try body of the loop
InTry(p) == p \notin {"Startup", "Reporting", "Terminated", "Crashed"}

\* the positions inside download_image
InDownload(p) == p \in {"Downloading", "dl_status", "dl_resolve", "dl_open", "dl_write", "dl_size"}

\* a loop whose last-resort handler gives up instead of going round
main_target_gives_up(k, p) == IF ~InTry(p) THEN "Crashed" ELSE "Terminated"

\* where main goes when an exception of class k reaches it at position p
main_target(k, p) ==
    IF ~InTry(p) THEN "Crashed"
    ELSE CASE Catch(main_clauses, k) = "KeyboardInterrupt" -> "Terminated"
           [] Catch(main_clauses, k) = "Exception" -> "Reporting"
           [] OTHER -> "Crashed"


----------------------------------------------------------------------------
(* The environment: what the user types, what the server answers           *)

http_prefix == <<"h","t","t","p",":","/","/">>
https_prefix == <<"h","t","t","p","s",":","/","/">>

\* lines the user may type at either prompt
Lines ==
    { <<>>,                                                   \* just Enter
      <<" ">>,                                                \* a blank
      <<"Q">>,
      <<" ","Q","u","I","T","\t">>,
      <<"E","x","i","t">>,
      <<"y">>,
      <<" ","Y","E","S"," ">>,
      <<"n">>,
      <<"f","t","p",":","/","/","h","/","x",".","x">>,        \* ftp://h/x.x
      <<"H","T","T","P",":","/","/","h","/","x",".","x">>,    \* HTTP://h/x.x
      http_prefix \o <<"h","/","x",".","x">>,                  \* http://h/x.x
      <<" ">> \o https_prefix \o <<"h","/","x","%","2","F","x",".","x"," ">>,
                                                               \* https://h/x%2Fx.x
      https_prefix \o <<"h","/">>,                             \* https://h/
      http_prefix \o <<"h","/",".",".">>,                      \* http://h/..
      http_prefix \o <<"h","/","x","%","0","0",".","x">> }     \* http://h/x%00.x

Statuses == {200, 304, 403, 404, 418, 503}

\* values of the content-type header; <<>> stands for a response without one
ContentTypes == { <<"I","m","a","g","e","/","x">>, <<"t","e","x","t","/","x">>, <<>> }

\* what iter_content may yield: a body is a sequence of chunks, a chunk a
\* sequence of bytes, possibly empty
Bodies ==
    { <<>>,
      << <<1>> >>,
      << <<>>, <<2, 1>>, <<>>, <<3>> >> }

\* the seconds int(time.time()) may show during a session
Times == {9, 10}

FirstTime == CHOOSE t \in Times : \A u \in Times : t <= u

NoResponse == [status |-> 0, ctype |-> <<>>, chunks |-> <<>>]


---------------------------------------------------------------------------------------------------------------------------------------------------
(* The file system: regular files by the path given to open(), relative to *)
(* the working directory                                                   *)

\* line 14
directory_name == <<"F","e","t","c","h","e","d","_","I","m","a","g","e","s">>

\* os.path.join(directory, filename) on POSIX
os_path_join(d, name) ==
    IF startswith(name, <<"/">>) THEN name
    ELSE IF d = <<>> \/ d[Len(d)] = "/" THEN d \o name
    ELSE d \o <<"/">> \o name

EmptyDir == [n \in {} |-> <<>>]

OldName == os_path_join(directory_name, <<"x", ".", "x">>)
OldDir == [n \in {OldName} |-> <<7, 7, 7, 7>>]    \* a file left by an earlier run

\* open(filepath, 'ab'): an existing file keeps its content
opened_for_append(fs, name) ==
    [n \in (DOMAIN fs) \cup {name} |-> IF n \in DOMAIN fs THEN fs[n] ELSE <<>>]

\* open(filepath, 'wb'): the file exists afterwards and is empty
opened(fs, name) == [n \in (DOMAIN fs) \cup {name} |-> IF n = name THEN <<>> ELSE fs[n]]

\* f.write(chunk)
written(fs, name, chunk) == [fs EXCEPT ![name] = @ \o chunk]

\* the test of line 85
is_written(chunk) == chunk # <<>>

\* the directories that exist once the output directory does: the working
\* directory, the root, the output directory and the same reached through "."
\* and ".." (the program creates no other directory)
ExistingDirs ==
    { <<>>, <<"/">>,
      directory_name \o <<"/">>,
      directory_name \o <<"/", ".", "/">>,
      directory_name \o <<"/", ".", ".", "/">> }

\* the class open(path, 'wb') raises for a path it cannot open, "none" when it can
open_error(path) ==
    IF Contains(path, NUL) THEN "ValueError"
    ELSE IF basename(path) \in {<<>>, <<".">>, <<".", ".">>} THEN "IsADirectoryError"
    ELSE IF SubSeq(path, 1, RFind(path, "/")) \notin ExistingDirs THEN "FileNotFoundError"
    ELSE "none"

----------------------------------------------------------------------------
(* download_image                                                          *)

\* a status check that only rejects server errors
raises_for_server_errors(status) == 500 <= status /\ status < 600

\* response.raise_for_status()
raises_for_status(status) == 400 <= status /\ status < 600

\* a content-type test that forgets to fold the case
warns_content_type_case_sensitive(ctype) ==
    ~startswith(ctype, <<"i","m","a","g","e","/">>)

\* the test of line 73
warns_content_type(ctype) == ~startswith(lower(ctype), <<"i","m","a","g","e","/">>)

\* an HTTPError clause that has no message of its own for 403
download_says_without_forbidden(k, status) ==
    CASE Catch(download_clauses, k) = "Timeout" -> "timed_out"
      [] Catch(download_clauses, k) = "ConnectionError" -> "could_not_connect"
      [] Catch(download_clauses, k) = "HTTPError" ->
            IF status = 404 THEN "http_not_found"
            ELSE IF status >= 500 THEN "http_server_error"
            ELSE "http_generic"
      [] Catch(download_clauses, k) = "RequestException" -> "request_failed"
      [] Catch(download_clauses, k) = "OSError" -> "could_not_save"
      [] Catch(download_clauses, k) = "Exception" -> "unexpected_download"

\* the message of the clause that catches an exception of class k
download_says(k, status) ==
    CASE Catch(download_clauses, k) = "Timeout" -> "timed_out"
      [] Catch(download_clauses, k) = "ConnectionError" -> "could_not_connect"
      [] Catch(download_clauses, k) = "HTTPError" ->
            IF status = 404 THEN "http_not_found"
            ELSE IF status = 403 THEN "http_forbidden"
            ELSE IF status >= 500 THEN "http_server_error"
            ELSE "http_generic"
      [] Catch(download_clauses, k) = "RequestException" -> "request_failed"
      [] Catch(download_clauses, k) = "OSError" -> "could_not_save"
      [] Catch(download_clauses, k) = "Exception" -> "unexpected_download"

\* an exception of class k is raised inside the try body of download_image
download_raises(k) ==
    /\ raised' = k
    /\ at' = pc
    /\ IF Catch(download_clauses, k) # "uncaught"
       THEN /\ result' = "False"
            /\ escaped' = "none"
            /\ pc' = "AskRetry"
            /\ said' = download_says(k, resp.status)
       ELSE /\ result' = result
            /\ escaped' = k
            /\ pc' = main_target(k, "Downloading")
            /\ said' = IF main_target(k, "Downloading") = "Terminated" THEN "interrupted"
                       ELSE IF main_target(k, "Downloading") = "Crashed" THEN "traceback"
                       ELSE said

\* line 66: requests.get fails
GetFails ==
    /\ pc = "Downloading"
    /\ requests' = requests + 1
    /\ \E k \in {"Timeout", "ConnectionError", "TooManyRedirects"} : download_raises(k)
    /\ UNCHANGED <<raw, url, dirState, returned, files, filesAtCall, prompts, resp, filename, fpos, now>>

\* line 66: requests.get returns a response
GetResponds ==
    /\ pc = "Downloading"
    /\ requests' = requests + 1
    /\ \E s \in Statuses, c \in ContentTypes, b \in Bodies :
          resp' = [status |-> s, ctype |-> c, chunks |-> b]
    /\ pc' = "dl_status"
    /\ raised' = "none"
    /\ at' = "none"
    /\ UNCHANGED <<raw, url, dirState, returned, files, filesAtCall, prompts, filename, fpos,
                   result, escaped, now, said>>

\* lines 69-74: the status check and the content-type warning
CheckStatus ==
    /\ pc = "dl_status"
    /\ IF raises_for_status(resp.status)
       THEN download_raises("HTTPError")
       ELSE /\ pc' = "dl_resolve"
            /\ said' = IF warns_content_type(resp.ctype) THEN "warn_content_type" ELSE said
            /\ raised' = "none"
            /\ at' = "none"
            /\ UNCHANGED <<result, escaped>>
    /\ UNCHANGED <<raw, url, dirState, returned, files, filesAtCall, requests, prompts, resp,
                   filename, fpos, now>>

\* lines 77-81: the filename is resolved; the clock may have moved on
Resolve ==
    /\ pc = "dl_resolve"
    /\ \E t \in Times :
          /\ t >= now
          /\ now' = t
          /\ filename' = extract_filename_from_url(url, t)
    /\ pc' = "dl_open"
    /\ said' = "saving"
    /\ raised' = "none"
    /\ at' = "none"
    /\ UNCHANGED <<raw, url, dirState, returned, files, filesAtCall, requests, prompts, resp,
                   fpos, result, escaped>>

\* line 78: filepath = os.path.join(directory, filename), directory being the
\* path main got from create_fetched_images_directory
filepath == os_path_join(returned[1], filename)

\* line 82: open(filepath, 'wb') succeeds
OpenFile ==
    /\ pc = "dl_open"
    /\ open_error(filepath) = "none"
    /\ files' = opened(files, filepath)
    /\ pc' = "dl_write"
    /\ raised' = "none"
    /\ at' = "none"
    /\ UNCHANGED <<raw, url, dirState, returned, filesAtCall, requests, prompts, resp, filename,
                   fpos, result, escaped, now, said>>

\* line 82: open(filepath, 'wb') raises
OpenFails ==
    /\ pc = "dl_open"
    /\ download_raises(IF open_error(filepath) = "none" THEN "PermissionError"
                       ELSE open_error(filepath))
    /\ UNCHANGED <<raw, url, dirState, returned, files, filesAtCall, requests, prompts, resp,
                   filename, fpos, now>>

\* lines 84-86: the next chunk arrives and is written unless it is empty
WriteChunk ==
    /\ pc = "dl_write"
    /\ fpos < Len(resp.chunks)
    /\ fpos' = fpos + 1
    /\ files' = IF is_written(resp.chunks[fpos + 1])
                THEN written(files, filepath, resp.chunks[fpos + 1])
                ELSE files
    /\ raised' = "none"
    /\ at' = "none"
    /\ UNCHANGED <<pc, raw, url, dirState, returned, filesAtCall, requests, prompts, resp,
                   filename, result, escaped, now, said>>

\* line 84: the stream breaks while the next chunk is read
StreamFails ==
    /\ pc = "dl_write"
    /\ fpos < Len(resp.chunks)
    /\ \E k \in {"ChunkedEncodingError", "ConnectionError"} : download_raises(k)
    /\ UNCHANGED <<raw, url, dirState, returned, files, filesAtCall, requests, prompts, resp,
                   filename, fpos, now>>

\* line 86: f.write raises (disk full)
WriteFails ==
    /\ pc = "dl_write"
    /\ fpos < Len(resp.chunks)
    /\ is_written(resp.chunks[fpos + 1])
    /\ download_raises("OSError")
    /\ UNCHANGED <<raw, url, dirState, returned, files, filesAtCall, requests, prompts, resp,
                   filename, fpos, now>>

\* lines 84, 87: the stream is exhausted and the file is closed
CloseFile ==
    /\ pc = "dl_write"
    /\ fpos = Len(resp.chunks)
    /\ pc' = "dl_size"
    /\ raised' = "none"
    /\ at' = "none"
    /\ UNCHANGED <<raw, url, dirState, returned, files, filesAtCall, requests, prompts, resp,
                   filename, fpos, result, escaped, now, said>>

\* lines 89-91: the size is read back and success is returned
ReportSize ==
    /\ pc = "dl_size"
    /\ result' = "True"
    /\ pc' = "AskRetry"
    /\ said' = "success"
    /\ raised' = "none"
    /\ at' = "none"
    /\ UNCHANGED <<raw, url, dirState, returned, files, filesAtCall, requests, prompts, resp,
                   filename, fpos, escaped, now>>

\* line 89: os.path.getsize raises
SizeFails ==
    /\ pc = "dl_size"
    /\ download_raises("OSError")
    /\ UNCHANGED <<raw, url, dirState, returned, files, filesAtCall, requests, prompts, resp,
                   filename, fpos, now>>

----------------------------------------------------------------------------
(* create_fetched_images_directory and main                                *)

\* os.makedirs(directory) without exist_ok: an existing directory is an error too
makedirs_error_exist_not_ok(d) == IF d \in {"file", "dir"} THEN "FileExistsError" ELSE "none"

\* os.makedirs(directory, exist_ok=True): the class it raises, "none" when it returns
makedirs_error(d) == IF d = "file" THEN "FileExistsError" ELSE "none"

\* a quit test that forgets to fold the case
is_quit_case_sensitive(u) ==
    u \in {<<"q","u","i","t">>, <<"e","x","i","t">>, <<"q">>, <<>>}

\* the test of line 149
is_quit(u) ==
    lower(u) \in {<<"q","u","i","t">>, <<"e","x","i","t">>, <<"q">>, <<>>}

\* a prefix test that folds the case of the scheme
has_http_prefix_any_case(u) ==
    startswith(lower(u), http_prefix) \/ startswith(lower(u), https_prefix)

\* the test of line 156, negated
has_http_prefix(u) == startswith(u, http_prefix) \/ startswith(u, https_prefix)

\* a yes/no test that takes just Enter for yes
is_yes_by_default(choice) == choice \in {<<"y">>, <<"y","e","s">>, <<>>}

\* the tests of lines 167 and 174, negated
is_yes(choice) == choice \in {<<"y">>, <<"y","e","s">>}

\* an exception of class k reaches main at position p
main_raises(k, p) ==
    /\ raised' = k
    /\ at' = p
    /\ pc' = main_target(k, p)
    /\ said' = IF main_target(k, p) = "Terminated" THEN "interrupted"
               ELSE IF main_target(k, p) = "Crashed" THEN "traceback"
               ELSE said

\* lines 130-140: the banner, then the directory is created
Startup ==
    /\ pc = "Startup"
    /\ makedirs_error(dirState) = "none"
    /\ dirState' = "dir"
    /\ returned' = Append(returned, directory_name)
    /\ pc' = "Prompting"
    /\ said' = "directory_ready"
    /\ raised' = "none"
    /\ at' = "none"
    /\ UNCHANGED <<raw, url, files, filesAtCall, requests, prompts, resp, filename,
                   fpos, result, escaped, now>>

\* line 15: os.makedirs raises (the name is taken by a file, or the parent is read-only)
StartupFails ==
    /\ pc = "Startup"
    /\ makedirs_error(dirState) # "none" \/ dirState = "absent"
    /\ main_raises(IF makedirs_error(dirState) = "none" THEN "PermissionError"
                   ELSE makedirs_error(dirState), "Startup")
    /\ UNCHANGED <<raw, url, dirState, returned, files, filesAtCall, requests, prompts, resp,
                   filename, fpos, result, escaped, now>>

\* lines 145-153: the URL prompt is answered
Prompt ==
    /\ pc = "Prompting"
    /\ prompts < MaxPrompts
    /\ prompts' = prompts + 1
    /\ \E l \in Lines :
          /\ raw' = l
          /\ url' = strip(l)
    /\ pc' = IF is_quit(url') THEN "Terminated" ELSE "Validating"
    /\ said' = IF is_quit(url') THEN "farewell" ELSE "ask_url"
    /\ raised' = "none"
    /\ at' = "none"
    /\ UNCHANGED <<dirState, returned, files, filesAtCall, requests, resp, filename, fpos,
                   result, escaped, now>>

\* line 146: input() raises because standard input is at its end
PromptFails ==
    /\ pc = "Prompting"
    /\ main_raises("EOFError", "Prompting")
    /\ UNCHANGED <<raw, url, dirState, returned, files, filesAtCall, requests, prompts, resp, filename,
                   fpos, result, escaped, now>>

\* lines 156-161: the prefix test; a valid URL enters download_image
Validate ==
    /\ pc = "Validating"
    /\ IF has_http_prefix(url)
       THEN /\ pc' = "Downloading"
            /\ said' = "connecting"
            /\ filesAtCall' = files
       ELSE /\ pc' = "Prompting"
            /\ said' = "warn_url"
            /\ UNCHANGED filesAtCall
    /\ raised' = "none"
    /\ at' = "none"
    /\ UNCHANGED <<raw, url, dirState, returned, files, requests, prompts, resp, filename, fpos,
                   result, escaped, now>>

\* lines 163-176: the yes/no question is answered; download_image's locals are gone
AskRetry ==
    /\ pc = "AskRetry"
    /\ prompts < MaxPrompts
    /\ prompts' = prompts + 1
    /\ \E l \in Lines : raw' = l
    /\ pc' = IF is_yes(lower(strip(raw'))) THEN "Prompting" ELSE "Terminated"
    /\ said' = IF is_yes(lower(strip(raw'))) THEN "ask_retry" ELSE "farewell"
    /\ resp' = NoResponse
    /\ filename' = <<>>
    /\ fpos' = 0
    /\ result' = "none"
    /\ filesAtCall' = files
    /\ raised' = "none"
    /\ at' = "none"
    /\ UNCHANGED <<url, dirState, returned, files, requests, escaped, now>>

\* lines 166, 173: input() raises because standard input is at its end
AskRetryFails ==
    /\ pc = "AskRetry"
    /\ main_raises("EOFError", "AskRetry")
    /\ resp' = NoResponse
    /\ filename' = <<>>
    /\ fpos' = 0
    /\ result' = "none"
    /\ filesAtCall' = files
    /\ UNCHANGED <<raw, url, dirState, returned, files, requests, prompts, escaped, now>>

\* lines 181-183: the error is reported and the loop goes round
Report ==
    /\ pc = "Reporting"
    /\ pc' = "Prompting"
    /\ said' = "unexpected_main"
    /\ raised' = "none"
    /\ at' = "none"
    /\ UNCHANGED <<raw, url, dirState, returned, files, filesAtCall, requests, prompts, resp,
                   filename, fpos, result, escaped, now>>

\* Ctrl-C: KeyboardInterrupt is raised wherever the program is
Interrupt ==
    /\ pc \notin {"Terminated", "Crashed"}
    /\ IF InDownload(pc)
       THEN download_raises("KeyboardInterrupt")
       ELSE /\ main_raises("KeyboardInterrupt", pc)
            /\ UNCHANGED <<result, escaped>>
    /\ UNCHANGED <<raw, url, dirState, returned, files, filesAtCall, requests, prompts, resp,
                   filename, fpos, now>>

\* what the output directory may hold before the program starts
OldNames ==
    { os_path_join(directory_name, <<"x", ".", "x">>),
      os_path_join(directory_name, generated_name(9)),
      os_path_join(directory_name, <<"x">>) }

OldContents == { <<>>, <<1>>, <<7, 7, 7, 7>> }

OldDirs == UNION { [S -> OldContents] : S \in SUBSET OldNames }

\* lines 14-17: create_fetched_images_directory returns
CreateDirectory ==
    /\ pc = "calling"
    /\ Len(returned) < MaxCalls
    /\ makedirs_error(dirState) = "none"
    /\ dirState' = "dir"
    /\ returned' = Append(returned, directory_name)
    /\ said' = "directory_ready"
    /\ raised' = "none"
    /\ at' = "none"
    /\ UNCHANGED <<pc, raw, url, files, filesAtCall, requests, prompts, resp, filename,
                   fpos, result, escaped, now>>

\* line 15: os.makedirs raises and the exception leaves the function
CreateDirectoryFails ==
    /\ pc = "calling"
    /\ Len(returned) < MaxCalls
    /\ makedirs_error(dirState) # "none" \/ dirState = "absent"
    /\ raised' = (IF makedirs_error(dirState) = "none" THEN "PermissionError"
                  ELSE makedirs_error(dirState))
    /\ at' = "calling"
    /\ pc' = "Crashed"
    /\ said' = "traceback"
    /\ UNCHANGED <<raw, url, dirState, returned, files, filesAtCall, requests, prompts,
                   resp, filename, fpos, result, escaped, now>>

InitDirectory ==
    /\ pc = "calling"
    /\ raw = <<>>
    /\ url = <<>>
    /\ dirState \in {"absent", "dir", "file"}
    /\ returned = <<>>
    /\ files \in (IF dirState = "dir" THEN OldDirs ELSE {EmptyDir})
    /\ filesAtCall = files
    /\ requests = 0
    /\ prompts = 0
    /\ resp = NoResponse
    /\ filename = <<>>
    /\ fpos = 0
    /\ result = "none"
    /\ raised = "none"
    /\ at = "none"
    /\ escaped = "none"
    /\ now = FirstTime
    /\ said = "none"

NextDirectory == CreateDirectory \/ CreateDirectoryFails

SpecDirectory == InitDirectory /\ [][NextDirectory]_vars

\* the characters URL tails are spelled with
TailChars == {"/", ".", "x", "%", "2", "F", "E", ";", "?"}

RECURSIVE SeqsUpTo(_, _)
SeqsUpTo(S, n) ==
    IF n = 0 THEN {<<>>}
    ELSE LET R == SeqsUpTo(S, n - 1) IN
         R \cup {Append(r, c) : r \in {q \in R : Len(q) = n - 1}, c \in S}

\* the URLs the filename resolver is applied to
ResolverURLs ==
    { p \o t : p \in { http_prefix \o <<"h">>,
                       https_prefix \o <<"h", "/">>,
                       http_prefix \o <<"[", "/">> },
               t \in SeqsUpTo(TailChars, MaxTail) }

\* line 77 on its own: extract_filename_from_url(url) at second `now`
ResolveOnly ==
    /\ pc = "resolve"
    /\ filename' = extract_filename_from_url(url, now)
    /\ pc' = "resolved"
    /\ UNCHANGED <<raw, url, dirState, returned, files, filesAtCall, requests, prompts, resp,
                   fpos, result, raised, at, escaped, now, said>>

InitResolver ==
    /\ pc = "resolve"
    /\ raw = <<>>
    /\ url \in ResolverURLs
    /\ dirState = "dir"
    /\ returned = <<>>
    /\ files = EmptyDir
    /\ filesAtCall = EmptyDir
    /\ requests = 0
    /\ prompts = 0
    /\ resp = NoResponse
    /\ filename = <<>>
    /\ fpos = 0
    /\ result = "none"
    /\ raised = "none"
    /\ at = "none"
    /\ escaped = "none"
    /\ now \in Times
    /\ said = "none"

NextResolver == ResolveOnly

SpecResolver == InitResolver /\ [][NextResolver]_vars

Init ==
    /\ pc = "Startup"
    /\ raw = <<>>
    /\ url = <<>>
    /\ dirState \in {"absent", "dir", "file"}
    /\ returned = <<>>
    /\ files \in (IF dirState = "dir" THEN {EmptyDir, OldDir} ELSE {EmptyDir})
    /\ filesAtCall = files
    /\ requests = 0
    /\ prompts = 0
    /\ resp = NoResponse
    /\ filename = <<>>
    /\ fpos = 0
    /\ result = "none"
    /\ raised = "none"
    /\ at = "none"
    /\ escaped = "none"
    /\ now = FirstTime
    /\ said = "none"

Next ==
    \/ Startup \/ StartupFails
    \/ Prompt \/ PromptFails
    \/ Validate
    \/ GetFails \/ GetResponds \/ CheckStatus \/ Resolve
    \/ OpenFile \/ OpenFails
    \/ WriteChunk \/ StreamFails \/ WriteFails \/ CloseFile
    \/ ReportSize \/ SizeFails
    \/ AskRetry \/ AskRetryFails
    \/ Report
    \/ Interrupt

Spec == Init /\ [][Next]_vars

\* the interpreter keeps running: a step that can be taken is taken in the end
SpecFair == Init /\ [][Next]_vars /\ WF_vars(Next)

----------------------------------------------------------------------------
(* Properties of download_image                                            *)

\* the classes of the model that are errors (subclasses of Exception);
\* KeyboardInterrupt is a cancellation, not an error
FailureClasses ==
    {"Timeout", "ConnectionError", "HTTPError", "ChunkedEncodingError", "TooManyRedirects",
     "IsADirectoryError", "PermissionError", "FileExistsError", "FileNotFoundError",
     "OSError", "ValueError",
     "EOFError"}

\* C1: download_image never raises.  Whatever error occurs during the request,
\* the filename resolution, the file write or the size read-back, no error
\* leaves download_image, and when the call has returned its result is a
\* boolean: True when nothing was raised, False when an error was.
C1_NeverRaises ==
    /\ escaped \notin FailureClasses
    /\ pc = "AskRetry" =>
          \/ result = "True" /\ raised = "none"
          \/ result = "False" /\ raised \in FailureClasses

\* an error no specific clause names (open() refuses a name with a NUL in it)
\* was raised and the call still returned False
C1_Witness ==
    /\ pc = "AskRetry"
    /\ result = "False"
    /\ raised = "ValueError"
    /\ at = "dl_open"
    /\ escaped = "none"

\* C2: when the status of the response indicates an error (4xx, 5xx),
\* download_image stops at the status check: no filename is resolved, no file
\* of the output directory is created or changed, and the call returns False.
C2_NoFileOnHttpError ==
    (resp.status \div 100 \in {4, 5} /\ (InDownload(pc) \/ pc = "AskRetry")) =>
        /\ pc \in {"dl_status", "AskRetry"}
        /\ filename = <<>>
        /\ files = filesAtCall
        /\ pc = "AskRetry" => result = "False"

\* a 404 was answered and the call returned False with the not-found message
C2_Witness ==
    /\ pc = "AskRetry"
    /\ resp.status = 404
    /\ result = "False"
    /\ said = "http_not_found"
    /\ files = filesAtCall

RECURSIVE Flatten(_)
Flatten(chunks) == IF chunks = <<>> THEN <<>> ELSE Head(chunks) \o Flatten(Tail(chunks))

RECURSIVE TotalBytes(_)
TotalBytes(chunks) ==
    IF chunks = <<>> THEN 0 ELSE Len(Head(chunks)) + TotalBytes(Tail(chunks))

\* C10: round trip.  When download_image has returned True, the file at the
\* resolved name holds exactly the chunks of the body in order (empty chunks
\* contribute nothing) and its size is the size N of the body.
C10_RoundTrip ==
    (pc = "AskRetry" /\ result = "True") =>
        /\ filepath \in DOMAIN files
        /\ files[filepath] = Flatten(resp.chunks)
        /\ Len(files[filepath]) = TotalBytes(resp.chunks)

\* a body with empty chunks in it was saved over an older, longer file
C10_Witness ==
    /\ pc = "AskRetry"
    /\ result = "True"
    /\ resp.chunks = << <<>>, <<2, 1>>, <<>>, <<3>> >>
    /\ filepath \in DOMAIN filesAtCall
    /\ Len(filesAtCall[filepath]) > 3
    /\ files[filepath] = <<2, 1, 3>>

HttpMessage(status) ==
    CASE status = 404 -> "http_not_found"
      [] status = 403 -> "http_forbidden"
      [] status \in {500, 503} -> "http_server_error"
      [] status = 418 -> "http_generic"

\* C12 as stated: every response whose status is not 2xx is classified as
\* HttpError: download_image gets no further than the status check and
\* returns False without writing a file.
C12_NonSuccessIsHttpError ==
    (resp.status # 0 /\ resp.status \div 100 # 2
       /\ pc \in {"dl_resolve", "dl_open", "dl_write", "dl_size", "AskRetry"}) =>
        (pc = "AskRetry" /\ raised = "HTTPError" /\ result = "False"
           /\ files = filesAtCall)

\* C12, amended: every response whose status is 4xx or 5xx is classified as
\* HttpError: the call returns False without writing a file, with the message
\* chosen by the status (404 not found, 403 forbidden, 500 and above server
\* error, any other the generic message).  A status that is neither 2xx nor
\* 4xx/5xx (such as 304) is not an error for download_image: it goes on to
\* resolve the filename and write the body.
C12_ErrorStatusIsHttpError ==
    /\ (pc = "AskRetry" /\ resp.status \div 100 \in {4, 5}) =>
          /\ result = "False"
          /\ raised = "HTTPError"
          /\ files = filesAtCall
          /\ said = HttpMessage(resp.status)
    /\ (pc = "AskRetry" /\ resp.status # 0 /\ resp.status \div 100 \notin {4, 5}) =>
          raised # "HTTPError"
    /\ (pc = "dl_resolve") => resp.status \in {200, 304}

\* a 403 was answered: False, nothing written, the forbidden message
C12_Witness ==
    /\ pc = "AskRetry"
    /\ resp.status = 403
    /\ result = "False"
    /\ raised = "HTTPError"
    /\ said = "http_forbidden"
    /\ files = filesAtCall

\* the content types of ContentTypes that are missing or not image/...
NonImageTypes == { <<"t","e","x","t","/","x">>, <<>> }

\* C13: the content-type check is advisory.  For a response that passes the
\* status check, download_image goes on to resolve the filename whatever the
\* content type is, raising nothing; it prints the warning exactly when the
\* header is missing or does not begin with image/ (in any letter case).
C13_ContentTypeAdvisory ==
    [][ (pc = "dl_status" /\ resp.status \div 100 \notin {4, 5}
           /\ raised' # "KeyboardInterrupt") =>
            /\ pc' = "dl_resolve"
            /\ raised' = "none"
            /\ files' = files
            /\ (said' = "warn_content_type") <=> (resp.ctype \in NonImageTypes) ]_vars

\* a 200 response without a content-type header was saved and True returned
C13_Witness ==
    /\ pc = "AskRetry"
    /\ result = "True"
    /\ resp.status = 200
    /\ resp.ctype = <<>>
    /\ filepath \in DOMAIN files
    /\ files[filepath] = <<2, 1, 3>>

\* C15: whenever download_image returns False the output directory is as it
\* was when the call began: no file created, truncated or partially written,
\* also when the failure comes after the status check.
C15_FailureLeavesDirectory ==
    (pc = "AskRetry" /\ result = "False") => files = filesAtCall

\* path p names a file directly in the directory d
IsDirectChild(p, d) ==
    LET prefix == d \o <<"/">> IN
    /\ startswith(p, prefix)
    /\ Len(p) > Len(prefix)
    /\ LET name == SubSeq(p, Len(prefix) + 1, Len(p)) IN
          /\ ~Contains(name, "/")
          /\ name \notin {<<".">>, <<".", ".">>}

\* C17: every file download_image creates or overwrites is a direct child of
\* the output directory.  No file exists anywhere else, the name resolved from
\* the URL never holds a slash, and the path that open() accepted is a direct
\* child of the directory main was given.
C17_WritesOnlyDirectChildren ==
    /\ \A p \in DOMAIN files : IsDirectChild(p, directory_name)
    /\ pc \in {"dl_open", "dl_write", "dl_size"} => ~Contains(filename, "/")
    /\ pc = "dl_write" => IsDirectChild(filepath, returned[1])

\* the URL https://h/x%2Fx.x, whose decoded path is /x/x.x, has been saved
\* as x.x in the output directory
C17_Witness ==
    /\ pc = "AskRetry"
    /\ result = "True"
    /\ url = https_prefix \o <<"h","/","x","%","2","F","x",".","x">>
    /\ filename = <<"x", ".", "x">>
    /\ DOMAIN files = {os_path_join(directory_name, <<"x", ".", "x">>)}
    /\ files[filepath] = <<2, 1, 3>>

----------------------------------------------------------------------------
(* Properties of the session loop                                          *)

\* the lines of Lines that are empty or a quit word once trimmed, in any case
QuitLines ==
    { <<>>, <<" ">>, <<"Q">>, <<" ","Q","u","I","T","\t">>, <<"E","x","i","t">> }

\* the lines of Lines that are y or yes once trimmed, in any case
YesLines == { <<"y">>, <<" ","Y","E","S"," ">> }

\* the lines of Lines that are no quit word and, trimmed, do not start with
\* http:// or https://
BadPrefixLines ==
    { <<"y">>, <<" ","Y","E","S"," ">>, <<"n">>,
      <<"f","t","p",":","/","/","h","/","x",".","x">>,
      <<"H","T","T","P",":","/","/","h","/","x",".","x">> }

\* C3: an input that does not start with http:// or https:// (and is no quit
\* word) never causes a network request: whatever happened before, the
\* session warns and is back at Prompting, and requests are only ever issued
\* for the other inputs.
C3_BadPrefixRejected ==
    [][ /\ (pc = "Validating" /\ raw \in BadPrefixLines /\ raised' = "none") =>
              (pc' = "Prompting" /\ said' = "warn_url" /\ requests' = requests)
        /\ (requests' # requests) => raw \notin BadPrefixLines ]_vars

\* HTTP://h/x.x (upper-case scheme) was rejected at the second prompt, and no
\* request has been made so far
C3_Witness ==
    /\ pc = "Prompting"
    /\ said = "warn_url"
    /\ raw = <<"H","T","T","P",":","/","/","h","/","x",".","x">>
    /\ prompts = 2
    /\ requests = 0

\* C4: at Prompting, an input that is empty or quit, exit or q once trimmed,
\* in any letter case, takes the session straight to Terminated: no request
\* is made, and nothing happens after Terminated (no further prompt).
C4_QuitTerminates ==
    [][ /\ (pc = "Prompting" /\ prompts' = prompts + 1 /\ raised' = "none"
              /\ raw' \in QuitLines) =>
              (pc' = "Terminated" /\ said' = "farewell" /\ requests' = requests)
        /\ (pc = "Terminated") => UNCHANGED vars ]_vars

\* " QuIT<tab>" was typed at the first prompt and the session is over
C4_Witness ==
    /\ pc = "Terminated"
    /\ raw = <<" ","Q","u","I","T","\t">>
    /\ said = "farewell"
    /\ prompts = 1
    /\ requests = 0

\* C5: every fetch that returns, with True or with False, leaves the session
\* at AskRetry; the answer to the one question asked there takes it to
\* Prompting if it is y or yes once trimmed, in any letter case, and to
\* Terminated otherwise.
C5_AskRetryDecides ==
    [][ /\ (result = "none" /\ result' \in {"True", "False"}) => pc' = "AskRetry"
        /\ (pc = "AskRetry" /\ prompts' = prompts + 1 /\ raised' = "none") =>
              IF raw' \in YesLines THEN pc' = "Prompting"
              ELSE pc' = "Terminated" /\ said' = "farewell" ]_vars

\* after a fetch, " YES " was answered and the session prompts again
C5_Witness ==
    /\ pc = "Prompting"
    /\ raw = <<" ","Y","E","S"," ">>
    /\ said = "ask_retry"
    /\ requests = 1
    /\ prompts = 2

\* C6 as stated: a keyboard interrupt delivered at any point of the run takes
\* the session to Terminated with the farewell message.
C6_InterruptAnywhere ==
    raised = "KeyboardInterrupt" => (pc = "Terminated" /\ said = "interrupted")

\* C6, amended: a keyboard interrupt delivered while the try body of the loop
\* runs (at either prompt, during validation, during a download or chunked
\* write) takes the session to Terminated with the farewell message; one
\* delivered during startup and directory creation, or while the loop's own
\* handler reports an error, is caught by nothing and ends the program with
\* the unhandled KeyboardInterrupt.
C6_InterruptInsideLoop ==
    raised = "KeyboardInterrupt" =>
        IF at \in {"Startup", "Reporting"}
        THEN pc = "Crashed" /\ said = "traceback"
        ELSE pc = "Terminated" /\ said = "interrupted"

\* the interrupt arrived in the middle of the chunked write
C6_Witness ==
    /\ raised = "KeyboardInterrupt"
    /\ at = "dl_write"
    /\ fpos > 0
    /\ fpos < Len(resp.chunks)
    /\ pc = "Terminated"
    /\ said = "interrupted"

\* C7: an error other than a keyboard interrupt raised in an iteration of the
\* loop (at either prompt, or coming out of the fetch call) takes the session
\* to the loop's handler, never to Terminated, and the handler reports it and
\* returns to Prompting.
C7_LoopErrorsReported ==
    [][ /\ (raised' \in FailureClasses /\ at' \in {"Prompting", "AskRetry"}) =>
              pc' = "Reporting"
        /\ (escaped = "none" /\ escaped' \in FailureClasses) => pc' = "Reporting"
        /\ (pc = "Reporting" /\ raised' # "KeyboardInterrupt") =>
              (pc' = "Prompting" /\ said' = "unexpected_main") ]_vars

\* the yes/no prompt after a fetch failed with end-of-input, the error was
\* reported and the session prompts again
C7_Witness ==
    /\ pc = "Prompting"
    /\ said = "unexpected_main"
    /\ requests = 1
    /\ prompts = 1

----------------------------------------------------------------------------
(* Properties of create_fetched_images_directory                           *)

\* C14: the directory initializer is idempotent.  A call that follows a call
\* that returned does not raise, returns the same path again, and leaves the
\* directory and the files in it as they were.
C14_DirectoryIdempotent ==
    [][ (pc = "calling" /\ Len(returned) >= 1) =>
            /\ pc' = "calling"
            /\ raised' = "none"
            /\ returned' = Append(returned, returned[Len(returned)])
            /\ dirState' = dirState
            /\ files' = files ]_vars

\* two calls in a row have returned the same path, and the directory still
\* holds the two files it held before
C14_Witness ==
    /\ pc = "calling"
    /\ returned = <<directory_name, directory_name>>
    /\ dirState = "dir"
    /\ Cardinality(DOMAIN files) = 2
    /\ files = filesAtCall

\* C16: the session reaches Terminated whenever the input is finite.  Unless
\* the user interrupts, once a read has failed with end-of-input the session
\* goes on to Terminated instead of prompting again for ever.
C16_ExhaustedInputTerminates ==
    [](raised # "KeyboardInterrupt") => ((raised = "EOFError") ~> (pc = "Terminated"))

----------------------------------------------------------------------------
(* Properties of extract_filename_from_url                                 *)

\* the final segment of a path: what follows its last "/"
FinalSegment(p) ==
    CHOOSE s \in {SubSeq(p, k, Len(p)) : k \in 1..(Len(p) + 1)} :
        /\ ~Contains(s, "/")
        /\ Len(s) = Len(p) \/ p[Len(p) - Len(s)] = "/"

DigitChars == {"0","1","2","3","4","5","6","7","8","9"}

\* image_<integer>.jpg
IsGeneratedName(f) ==
    /\ Len(f) >= 11
    /\ SubSeq(f, 1, 6) = <<"i","m","a","g","e","_">>
    /\ SubSeq(f, Len(f) - 3, Len(f)) = <<".","j","p","g">>
    /\ \A i \in 7..(Len(f) - 4) : f[i] \in DigitChars

\* C8 as stated: for a URL whose path ends in a segment that contains a dot,
\* the result is the percent-decoding of that final segment, also when the
\* segment holds a percent-encoded separator such as %2F.
C8_DecodedFinalSegment ==
    (pc = "resolved" /\ urlparse(url).ok
       /\ Contains(FinalSegment(urlparse(url).path), ".")) =>
        filename = unquote(FinalSegment(urlparse(url).path))

\* C8, amended: for a URL whose percent-decoded path ends in a segment that
\* contains a dot, the result is exactly that segment, the text after the
\* last "/" of the decoded path; a %2F is decoded before the split and so
\* separates segments.  The segments "." and ".." are returned as they are.
C8_FinalSegmentOfDecodedPath ==
    (pc = "resolved" /\ urlparse(url).ok
       /\ Contains(FinalSegment(unquote(urlparse(url).path)), ".")) =>
        filename = FinalSegment(unquote(urlparse(url).path))

\* https://h/x%2F. resolves to ".", the segment after the decoded separator
C8_Witness ==
    /\ pc = "resolved"
    /\ url = https_prefix \o <<"h", "/", "%", "2", "F", ".">>
    /\ filename = <<".">>

\* C9: for a URL with no path, an empty final segment or a final segment
\* without a dot (segments of the decoded path), and for a URL that fails to
\* parse, the result has the form image_<integer>.jpg; the result is never
\* empty.
C9_GeneratedName ==
    pc = "resolved" =>
        /\ filename # <<>>
        /\ (\/ ~urlparse(url).ok
            \/ ~Contains(FinalSegment(unquote(urlparse(url).path)), ".")) =>
              IsGeneratedName(filename)

\* a URL that fails to parse got the generated name of second 10
C9_Witness ==
    /\ pc = "resolved"
    /\ ~urlparse(url).ok
    /\ url = http_prefix \o <<"[", "/", "x", ".", "x">>
    /\ filename = <<"i","m","a","g","e","_","1","0",".","j","p","g">>

====
